---- MODULE Spec2Model ----
(***************************************************************************)
(* A model of FGTKde (fgt_kde.h): kernel density estimation with the fast  *)
(* Gauss transform on a uniform grid.                                       *)
(*                                                                          *)
(* Conventions.                                                             *)
(*  - A std::vector is a record [size, mem]: mem is its allocated storage   *)
(*    (capacity cells, C++ cell i is mem[i+1]) and size is what size()      *)
(*    returns.  reserve(c) allocates c cells and leaves size at 0;          *)
(*    operator[] reads and writes the storage and never changes size.       *)
(*  - Axis d of the C++ code (0-based) is position d+1 of a sequence.       *)
(***************************************************************************)
EXTENDS Integers, Sequences, FiniteSets, TLC

(***************************************************************************)
(* Bounds of the model.                                                     *)
(***************************************************************************)
\* largest number of boxes along one axis in the single calls of the index
\* functions
MaxSide == 3
\* largest neighbour range kdis in the single calls of MakeNeighbors_
MaxKdis == 2

\* largest dimension: of the grids of the single calls, and of the point sets
MaxDim == 2

(***************************************************************************)
(* std::vector                                                              *)
(***************************************************************************)
\* the content of a storage cell that was allocated and never written
Uninit == "uninit"

\* std::vector<T> v; v.reserve(c): c cells of storage, size() stays 0
VecReserve(c) == [size |-> 0, mem |-> [i \in 1..c |-> Uninit]]

\* a vector holding the elements of sequence s (size() = Len(s))
VecOf(s) == [size |-> Len(s), mem |-> s]

\* v[i] = x (0-based i): writes the storage, leaves size() alone
VecSet(v, i, x) == [v EXCEPT !.mem[i + 1] = x]

\* v[i] (0-based i)
VecGet(v, i) == v.mem[i + 1]

\* the first size() cells of the storage
VecElems(v) == SubSeq(v.mem, 1, v.size)

(***************************************************************************)
(* Box ids <-> per-axis coordinates                                         *)
(***************************************************************************)
RECURSIVE ProdBelow(_, _)
\* the inner loop of MultiDimIndexInSingleArray_: prod of n[j], j < i
ProdBelow(n, i) == IF i = 0 THEN 1 ELSE ProdBelow(n, i - 1) * VecGet(n, i - 1)

RECURSIVE EncodeFrom(_, _, _, _)
\* the outer loop of MultiDimIndexInSingleArray_ from i on, sum so far
EncodeFrom(coords, n, i, sum) ==
  IF i >= coords.size THEN sum
  ELSE EncodeFrom(coords, n, i + 1, sum + VecGet(coords, i) * ProdBelow(n, i))

\* a plausible slip: the stride of axis i includes n[i] itself
MultiDimIndexInSingleArray_Slip(coords, n) ==
  LET RECURSIVE Go(_, _)
      Go(i, sum) == IF i >= coords.size THEN sum
                    ELSE Go(i + 1, sum + VecGet(coords, i) * ProdBelow(n, i + 1))
  IN Go(0, 0)

\* index_t MultiDimIndexInSingleArray_(coords, n)
MultiDimIndexInSingleArray_(coords, n) == EncodeFrom(coords, n, 0, 0)

RECURSIVE DecodeFrom(_, _, _, _)
\* the loop of SingleDimIndexInMultiArray_ from i on
DecodeFrom(n, index, coords, i) ==
  IF i >= coords.size THEN coords
  ELSE DecodeFrom(n, index \div VecGet(n, i),
                  VecSet(coords, i, index % VecGet(n, i)), i + 1)

\* void SingleDimIndexInMultiArray_(n, index, coords): coords afterwards
SingleDimIndexInMultiArray_(n, index, coords) == DecodeFrom(n, index, coords, 0)

RECURSIVE OngridFrom(_, _, _, _, _)
\* the loop of IsOngrid_ from axis d on; old_coords and new_coords are the
\* same vector at the only call site, so one vector is threaded through
OngridFrom(coords, delta, nsides, dim, d) ==
  IF d >= dim THEN [ongrid |-> 1, new_coords |-> coords]
  ELSE LET new_val == VecGet(coords, d) + delta
       IN IF new_val < 0 \/ new_val >= VecGet(nsides, d)
          THEN [ongrid |-> 0, new_coords |-> coords]
          ELSE OngridFrom(VecSet(coords, d, new_val), delta, nsides, dim, d + 1)

\* index_t IsOngrid_(old_coords, delta, new_coords, nsides), called with
\* old_coords and new_coords aliased: the result and new_coords afterwards
IsOngrid_(old_coords, delta, nsides) ==
  OngridFrom(old_coords, delta, nsides, old_coords.size, 0)

RECURSIVE IntPow(_, _)
\* (index_t) pow(b, e) for integers b and e >= 0
IntPow(b, e) == IF e = 0 THEN 1 ELSE b * IntPow(b, e - 1)

RECURSIVE FillFrom(_, _, _, _)
\* for(i = from; i < count; i++) v[i] = x
FillFrom(v, count, x, i) ==
  IF i >= count THEN v ELSE FillFrom(VecSet(v, i, x), count, x, i + 1)

RECURSIVE AddFrom(_, _, _, _)
\* for(j = from; j < count; j++) new_coords[j] = coords[j] + delta[j]
AddFrom(new_coords, coords, delta, j) ==
  IF j >= coords.size THEN new_coords
  ELSE AddFrom(VecSet(new_coords, j, VecGet(coords, j) + VecGet(delta, j)),
               coords, delta, j + 1)

\* a vector the code meant to size: resize(c) gives size() = c
VecSized(c) == [size |-> c, mem |-> [i \in 1..c |-> 0]]

\* the local index vectors of MakeNeighbors_ (coords, dummy_n, all_ones,
\* delta, new_coords): each is only reserve()d, so its size() is 0
NeighborVec(c) == VecReserve(c)

RECURSIVE NeighborsFrom(_, _, _, _, _, _, _, _)
\* the enumeration loop of MakeNeighbors_ from i on
NeighborsFrom(coords, dummy_n, delta, new_coords, nsides, kdis, num_neighbors, st) ==
  IF st.i >= num_neighbors THEN st.ret
  ELSE LET d1 == SingleDimIndexInMultiArray_(dummy_n, st.i, delta)
           nc == AddFrom(new_coords, coords, d1, 0)
           og == IsOngrid_(nc, -kdis, nsides)
       IN NeighborsFrom(coords, dummy_n, d1, og.new_coords, nsides, kdis,
                        num_neighbors,
                        [i |-> st.i + 1,
                         ret |-> IF og.ongrid = 1
                                 THEN Append(st.ret,
                                        MultiDimIndexInSingleArray_(og.new_coords, nsides))
                                 ELSE st.ret])

\* void MakeNeighbors_(ibox, nsides, kdis, ret): ret afterwards
MakeNeighbors_(ibox, nsides, kdis, ret) ==
  LET coords == SingleDimIndexInMultiArray_(nsides, ibox, NeighborVec(nsides.size))
      dummy_n == FillFrom(NeighborVec(coords.size), coords.size, 2 * kdis + 1, 0)
      num_neighbors == IntPow(2 * kdis + 1, coords.size)
  IN NeighborsFrom(coords, dummy_n, NeighborVec(coords.size),
                   NeighborVec(coords.size), nsides, kdis, num_neighbors,
                   [i |-> 0, ret |-> ret])

(***************************************************************************)
(* double                                                                   *)
(*                                                                          *)
(* A double is modelled in fixed point: the integer x stands for x / Scale. *)
(* Products and quotients round toward minus infinity.  The inputs of the   *)
(* model are integers, so coordinates, extents and side lengths are exact.  *)
(***************************************************************************)
\* the resolution of a modelled double
Scale == 10000

\* what a double that is not a number is modelled by (every accumulated
\* sum of the program is >= 0)
NaN == -1

\* the values (index_t) x can take when x is not finite: the conversion is
\* undefined; x86 gives the least index_t, other targets 0 or the largest
IndexMax == 2147483647
CastOutcomes == {-IndexMax - 1, 0, IndexMax}

\* a * b for doubles a >= 0 and b >= 0; the larger factor is cut to three
\* decimals first when the exact product would leave the integers
FMul(a, b) ==
  LET hi == IF a >= b THEN a ELSE b
      lo == IF a >= b THEN b ELSE a
  IN IF hi < 46000 THEN (hi * lo) \div Scale
     ELSE ((hi \div 1000) * lo) \div (Scale \div 1000)

\* a / b for doubles a and b > 0
FDiv(a, b) == (a * Scale) \div b

RECURSIVE FPow(_, _)
\* pow(a, e) for a double a >= 0 and an integer e >= 0
FPow(a, e) == IF e = 0 THEN Scale ELSE FMul(a, FPow(a, e - 1))

RECURSIVE Newton(_, _)
\* Newton's iteration for the integer square root of n from the guess x
Newton(n, x) ==
  LET y == (x + n \div x) \div 2
  IN IF y >= x THEN x ELSE Newton(n, y)

\* the largest integer whose square is at most n
Isqrt(n) == IF n <= 0 THEN 0 ELSE Newton(n, n)

\* sqrt(n) as a double, for an integer n >= 0
FSqrtInt(n) ==
  IF n < 200000 THEN Isqrt(n * 10000) * (Scale \div 100)
  ELSE IF n < 20000000 THEN Isqrt(n * 100) * (Scale \div 10)
  ELSE Isqrt(n) * Scale

RECURSIVE Halvings(_, _, _)
\* the least m with n / (d * 2^m) <= 1/2
Halvings(n, d, m) == IF 2 * n <= d THEN m ELSE Halvings(n, 2 * d, m + 1)

RECURSIVE ExpSeries(_, _, _, _, _)
\* sum of the terms (-n/d)^k / k! from k on, term being term k-1
ExpSeries(n, d, k, term, sum) ==
  IF k > 8 THEN sum
  ELSE LET t == -((term * n) \div (d * k))
       IN ExpSeries(n, d, k + 1, t, sum + t)

RECURSIVE SquareTimes(_, _)
\* x^(2^m) for a double 0 <= x <= 1
SquareTimes(x, m) == IF m = 0 THEN x ELSE SquareTimes(FMul(x, x), m - 1)

\* exp(-n/d) as a double, for integers n >= 0 and d > 0
ExpNeg(n, d) ==
  LET m == Halvings(n, d, 0)
      base == ExpSeries(n, d * IntPow(2, m), 1, Scale, Scale)
  IN SquareTimes(base, m)

\* x + y for doubles, either of which may be NaN
FAdd(x, y) == IF x = NaN \/ y = NaN THEN NaN ELSE x + y

(***************************************************************************)
(* The state                                                                *)
(***************************************************************************)
VARIABLES
  pc,                  \* where the object is in Init / Compute
  io,                  \* the parameters kde/bandwidth and kde/absolute_error
  qset_,               \* arma::mat: [n_rows, cols], one point per column
  rset_,
  kernel_,             \* GaussianKernel: [bandwidth_sq]
  tau_,                \* desired absolute error, a double
  densities_,          \* arma::vec, one accumulator per query
  nsides,              \* Compute's locals, filled by the preprocessing
  sidelengths,
  mincoords,
  nboxes,
  nterms,
  srch,                \* the locals of the truncation-order search
  center,              \* arma::mat center(dim, nboxes)
  locexp,              \* arma::mat, one column of local moments per box
  mcoeffs,             \* arma::mat, one column of far-field moments per box
  queries_assigned,    \* std::vector<std::vector<index_t> >
  references_assigned,
  cut,                 \* GaussTransform_'s locals: [kdis, nfmax, nlmax]
  ibox,                \* the box FinalizeSum_'s loop is at
  runs,                \* the density vectors of the completed Compute calls
  ops,                 \* the calls FinalizeSum_ has made in this Compute
  t                    \* a single call of an index function: its arguments
                       \* and what it returned

objvars == <<io, qset_, rset_, kernel_, tau_>>
gridvars == <<nsides, sidelengths, mincoords, nboxes>>
boxvars == <<center, locexp, mcoeffs, queries_assigned, references_assigned, cut>>
vars == <<pc, io, qset_, rset_, kernel_, tau_, densities_, nsides, sidelengths,
          mincoords, nboxes, nterms, srch, center, locexp, mcoeffs,
          queries_assigned, references_assigned, cut, ibox, runs, ops, t>>

(***************************************************************************)
(* More bounds: the inputs of Init.                                         *)
(***************************************************************************)
\* the coordinates of a point are integers in 0..MaxCoord
MaxCoord == 2
\* the largest number of points of a query or reference set
MaxPts == 2
\* the bandwidths are 1..MaxBw
MaxBw == 2
\* the order at which the model stops following the truncation-order search
MaxOrder == 10

\* the accepted tolerances the model draws from: 0.1 and 0.01
Taus == {Scale \div 10, Scale \div 100}

\* the points of dimension dim
Points(dim) == [1..dim -> 0..MaxCoord]

RECURSIVE Rank(_, _)
\* a point's place in the lexicographic order of the first d axes
Rank(p, d) == IF d = 0 THEN 0 ELSE Rank(p, d - 1) * (MaxCoord + 1) + p[d]

\* the point sequences of at most n points, in non-decreasing order: the
\* program treats the columns alike, so one order of each multiset is drawn
PointSeqs(dim, n) ==
  {s \in UNION {[1..k -> Points(dim)] : k \in 0..n} :
     \A i \in 1..(Len(s) - 1) : Rank(s[i], dim) <= Rank(s[i + 1], dim)}

\* arma::mat with one column per point
Mat(dim, s) == [n_rows |-> dim, cols |-> s]
n_cols(m) == Len(m.cols)

(***************************************************************************)
(* Init                                                                     *)
(***************************************************************************)
\* GaussianKernel::Init(bandwidth) keeps the squared bandwidth
KernelInit(bandwidth) == [bandwidth_sq |-> bandwidth * bandwidth]

\* the caller stores the two parameters, in.bw and in.tau, and calls
\* void Init(qset, rset).  Nothing is checked; densities_ is sized and left
\* unset.
InitWith(inputs) ==
  /\ pc = "new"
  /\ \E in \in inputs :
       /\ io' = [bandwidth |-> in.bw, absolute_error |-> in.tau]
       /\ kernel_' = KernelInit(io'.bandwidth)
       /\ qset_' = in.q
       /\ densities_' = [i \in 1..n_cols(in.q) |-> Uninit]
       /\ rset_' = in.r
       /\ tau_' = io'.absolute_error
  /\ pc' = "inited"
  /\ UNCHANGED <<gridvars, nterms, srch, boxvars, ibox, runs, ops, t>>

(***************************************************************************)
(* FastGaussTransformPreprocess_                                            *)
(***************************************************************************)
SetMin(S) == CHOOSE x \in S : \A y \in S : x <= y
SetMax(S) == CHOOSE x \in S : \A y \in S : x >= y

\* sqrt(kernel_.bandwidth_sq())
Bandwidth(k) == Isqrt(k.bandwidth_sq)

\* a quotient of two integers kept exact: sidelengths[di]
Rat(num, den) == [num |-> num, den |-> den]

\* the bounding box and the boxes along axis di (1-based) of point set m,
\* lines 114-146; m has a point and bandwidth > 0
GridAxis(m, bandwidth, di) ==
  LET xs == {m.cols[n][di] : n \in 1..n_cols(m)}
      mn == SetMin(xs)
      mx == SetMax(xs)
      ns == (mx - mn) \div bandwidth + 1
  IN [mincoord |-> mn,
      nside |-> ns,
      tmp |-> ((mx - mn) * Scale) \div (ns * 2 * bandwidth),
      sidelength |-> Rat(mx - mn, ns)]

\* a plausible slip: the loop over the axes starts at di = 1, so the boxes
\* along axis 0 are left out of the product
ProdSeq_Slip(s, k) ==
  LET RECURSIVE Go(_)
      Go(j) == IF j <= 1 THEN 1 ELSE Go(j - 1) * s[j]
  IN Go(k)

RECURSIVE ProdSeq(_, _)
\* (*nboxes) = (*nboxes) * nsides[di], di < k
ProdSeq(s, k) == IF k = 0 THEN 1 ELSE ProdSeq(s, k - 1) * s[k]

\* the largest tmp seen by the loop of lines 130-146, boxside starting at -1
Boxside(axes, dim) == SetMax({-Scale} \cup {axes[di].tmp : di \in 1..dim})

\* whether lines 114-146 stay within finite doubles: with no reference point
\* the extents are -infinity, with bandwidth 0 the quotients are not finite,
\* and the conversion of either to index_t is undefined
GridDefined(m, k) == n_cols(m) > 0 /\ Bandwidth(k) > 0

\* the locals of the truncation-order search as the loop is entered,
\* lines 148-155
SearchStart(two_r, dim) ==
  LET one_minus_two_r == Scale - two_r
  IN [ip |-> 0,
      two_r |-> two_r,
      ret |-> FDiv(Scale, FPow(FMul(one_minus_two_r, one_minus_two_r), dim)),
      factorialvalue |-> 1,
      r_raised_to_p_alpha |-> Scale,
      ret2 |-> 0]

\* one pass of the do-while body, lines 159-169
SearchBody(s, dim) ==
  LET ip == s.ip + 1
      factorialvalue == s.factorialvalue * ip
      r_raised_to_p_alpha == FMul(s.r_raised_to_p_alpha, s.two_r)
      one_minus == Scale - r_raised_to_p_alpha
      first_factor == FMul(one_minus, one_minus)
      second_factor ==
        FDiv(FMul(r_raised_to_p_alpha, 2 * Scale - r_raised_to_p_alpha),
             FSqrtInt(factorialvalue))
  IN [s EXCEPT !.ip = ip,
               !.factorialvalue = factorialvalue,
               !.r_raised_to_p_alpha = r_raised_to_p_alpha,
               !.ret2 = FMul(s.ret, FPow(first_factor + second_factor, dim)
                                    - FPow(first_factor, dim))]

\* the loop condition, line 171
SearchAgain(s, tau) == s.ret2 > tau

\* Compute, lines 1163-1183, and FastGaussTransformPreprocess_ up to the
\* search: the densities are zeroed and the grid is laid out.  nsides is
\* only reserve()d: its cells are written, its size() stays 0.
ComputeFrom(at) ==
  /\ pc = at
  /\ densities_' = [i \in 1..n_cols(qset_) |-> 0]
  /\ IF GridDefined(rset_, kernel_)
     THEN LET dim == rset_.n_rows
              axes == [di \in 1..dim |-> GridAxis(rset_, Bandwidth(kernel_), di)]
              ns == [di \in 1..dim |-> axes[di].nside]
          IN /\ mincoords' = [di \in 1..dim |-> axes[di].mincoord]
             /\ nsides' = [VecReserve(dim) EXCEPT !.mem = ns]
             /\ sidelengths' = [di \in 1..dim |-> axes[di].sidelength]
             /\ nboxes' = ProdSeq(ns, dim)
             /\ srch' = SearchStart(2 * Boxside(axes, dim), dim)
             /\ pc' = "search"
     ELSE /\ pc' = "fault"
          /\ UNCHANGED <<gridvars, srch>>
  /\ ops' = <<>>
  /\ UNCHANGED <<objvars, nterms, boxvars, ibox, runs, t>>

\* Compute() on an object Init has set up
ComputeBegin == ComputeFrom("inited")

\* Compute() called once more on an object whose Compute has returned
ComputeAgain == Len(runs) < 2 /\ ComputeFrom("done")

\* one iteration of the do-while of lines 158-171; when the bound has come
\* down to tau_ the loop ends and *nterms = ip
SearchStep ==
  /\ pc = "search"
  /\ srch.ip < MaxOrder
  /\ LET s == SearchBody(srch, rset_.n_rows)
     IN /\ srch' = s
        /\ IF SearchAgain(s, tau_)
           THEN UNCHANGED <<pc, nterms>>
           ELSE pc' = "alloc" /\ nterms' = s.ip
  /\ UNCHANGED <<objvars, densities_, gridvars, boxvars, ibox, runs, ops, t>>

(***************************************************************************)
(* Compute's buffers and GaussTransform_'s cut-offs                         *)
(***************************************************************************)
\* what the cells of a reserve()d std::vector<std::vector<index_t> > can
\* hold: no inner vector is ever constructed in them, so push_back works on
\* whatever the storage held: nothing (zeroed storage reads as an empty
\* vector), or the list an earlier owner of the storage left there
UninitLists == {<<>>, <<0>>}

\* queries_assigned.reserve(nboxes): size() 0, every cell unconstructed
ListsReserve(n, residue) == [size |-> 0, mem |-> [b \in 1..n |-> residue]]

\* arma::mat m(rows, n): allocated, not filled
MatUninit(rows, n) == [b \in 1..n |-> [j \in 1..rows |-> Uninit]]

\* arma::mat m(rows, n); m.zeros()
MatZeros(rows, n) == [b \in 1..n |-> [j \in 1..rows |-> 0]]

\* the k >= 0 with k <= sqrt(-2 log(tau)), that is tau <= exp(-k*k/2)
KdisRoots(tau) == {k \in 0..6 : tau <= ExpNeg(k * k, 2)}

\* (index_t) (sqrt(log(tau_) * -2.0) + 1), line 1091: the values it can
\* take.  The square root is not finite for tau_ <= 0 and not a number for
\* tau_ > 1, and the conversion is then undefined.
Kdis(tau) ==
  IF tau > 0 /\ tau <= Scale THEN {SetMax(KdisRoots(tau)) + 1} ELSE CastOutcomes

\* Compute, lines 1186-1208, and GaussTransform_, lines 1090-1096
Allocate ==
  /\ pc = "alloc"
  /\ LET dim == rset_.n_rows
         totalnumcoeffs == IntPow(nterms, dim)
     IN /\ center' = MatUninit(dim, nboxes)
        /\ locexp' = MatZeros(totalnumcoeffs, nboxes)
        /\ mcoeffs' = MatZeros(totalnumcoeffs, nboxes)
        /\ \E residue \in UninitLists :
             /\ queries_assigned' = ListsReserve(nboxes, residue)
             /\ references_assigned' = ListsReserve(nboxes, residue)
  /\ \E kdis \in Kdis(tau_) :
       cut' = [kdis |-> kdis,
               nfmax |-> IntPow(nterms, qset_.n_rows - 1) + 2,
               nlmax |-> IntPow(nterms, qset_.n_rows - 1) + 2]
  /\ pc' = "assign"
  /\ UNCHANGED <<objvars, densities_, gridvars, nterms, srch, ibox, runs, ops, t>>

(***************************************************************************)
(* Assign_                                                                  *)
(***************************************************************************)
Min2(a, b) == IF a <= b THEN a ELSE b
Max2(a, b) == IF a >= b THEN a ELSE b

\* (index_t) floor((x - mincoord) / h), lines 349 and 365: the values it can
\* take.  With h = 0 the quotient is not finite and the conversion undefined.
Binnums(x, mincoord, h) ==
  IF h.num = 0 THEN CastOutcomes
  ELSE {((x - mincoord) * h.den) \div h.num}

\* a plausible slip: the upper clamp is nside, one past the last bin
ClampBin_Slip(binnum, nside) == Max2(0, Min2(binnum, nside))

\* max((index_t) 0, min(binnum, nside - 1)), lines 351 and 367
ClampBin(binnum, nside) == Max2(0, Min2(binnum, nside - 1))

\* a plausible slip: the axes are folded from axis 0 up, which makes axis 0
\* the most significant digit of the box number
BoxnumsFrom_Slip(p, ns, sl, mc, di, boxnums) ==
  LET RECURSIVE Up(_, _)
      Up(d, bs) ==
        IF d > di THEN bs
        ELSE Up(d + 1, {b * VecGet(ns, d - 1) + ClampBin(bn, VecGet(ns, d - 1)) :
                          b \in bs, bn \in Binnums(p[d], mc[d], sl[d])})
  IN Up(1, boxnums)

RECURSIVE BoxnumsFrom(_, _, _, _, _, _)
\* the loop over di = dim - 1, ..., 0 of lines 346-353 from axis di (1-based)
\* down, boxnums being the values boxnum can have so far
BoxnumsFrom(p, ns, sl, mc, di, boxnums) ==
  IF di = 0 THEN boxnums
  ELSE BoxnumsFrom(p, ns, sl, mc, di - 1,
         {b * VecGet(ns, di - 1) + ClampBin(bn, VecGet(ns, di - 1)) :
            b \in boxnums, bn \in Binnums(p[di], mc[di], sl[di])})

\* the box numbers lines 344-353 can give point p, over dim axes
Boxnums(p, dim, ns, sl, mc) == BoxnumsFrom(p, ns, sl, mc, dim, {0})

RECURSIVE PushAll(_, _, _)
\* lists[boxnum of r].push_back(r) for r = 0, ..., in order
PushAll(lists, boxnum, r) ==
  IF r >= Len(boxnum) THEN lists
  ELSE PushAll([lists EXCEPT !.mem[boxnum[r + 1] + 1] = Append(@, r)],
               boxnum, r + 1)

\* the ways lines 342-371 can assign the points of m to boxes
Assignments(m, dim, ns, sl, mc) ==
  {f \in [1..n_cols(m) ->
            UNION {Boxnums(m.cols[r], dim, ns, sl, mc) : r \in 1..n_cols(m)}] :
     \A r \in 1..n_cols(m) : f[r] \in Boxnums(m.cols[r], dim, ns, sl, mc)}

\* void Assign_(...), the first step of FinalizeSum_.  The loops run over
\* qset_.n_rows axes; with more query rows than reference rows they read
\* past nsides, sidelengths and the rows of rset_.  The centre loop, lines
\* 374-390, writes box_center, a copy of the column (arma::vec box_center =
\* center.col(r)): center itself is not written.
Assign ==
  /\ pc = "assign"
  /\ IF qset_.n_rows > rset_.n_rows
     THEN /\ pc' = "fault"
          /\ UNCHANGED <<queries_assigned, references_assigned, ibox>>
     ELSE LET dim == qset_.n_rows
          IN /\ \E f \in Assignments(rset_, dim, nsides, sidelengths, mincoords) :
                  references_assigned' = PushAll(references_assigned, f, 0)
             /\ \E f \in Assignments(qset_, dim, nsides, sidelengths, mincoords) :
                  queries_assigned' = PushAll(queries_assigned, f, 0)
             /\ ibox' = 0
             /\ pc' = "boxes"
  /\ UNCHANGED <<objvars, densities_, gridvars, nterms, srch, center, locexp,
                 mcoeffs, cut, runs, ops, t>>

(***************************************************************************)
(* FinalizeSum_: the loop over the reference boxes                          *)
(***************************************************************************)
\* what an expression fed by a read of the never written center can add to
\* an accumulator: the moments it is multiplied with are all 0, so 0 when
\* the values read are finite, and not a number when they are not
UninitReads == {0, NaN}

\* whether every row of the list is a column of a set of n points
RowsInRange(rows, n) == \A k \in 1..Len(rows) : rows[k] >= 0 /\ rows[k] < n

RECURSIVE SumSqFrom(_, _, _)
\* la::DistanceSqEuclidean(query, reference), over the rows of query
SumSqFrom(query, reference, d) ==
  IF d = 0 THEN 0
  ELSE SumSqFrom(query, reference, d - 1)
       + (query[d] - reference[d]) * (query[d] - reference[d])
DistanceSqEuclidean(query, reference) == SumSqFrom(query, reference, Len(query))

\* exp(-dsqd / delta), line 992, with delta = 2 * bandwidth_sq
Pot(query, reference, delta) == ExpNeg(DistanceSqEuclidean(query, reference), delta)

RECURSIVE DirectRow(_, _, _, _, _)
\* the loop over l of lines 986-996 for one query row, from l on
DirectRow(acc, query, reference_rows, delta, l) ==
  IF l >= Len(reference_rows) THEN acc
  ELSE DirectRow(FAdd(acc, Pot(query, rset_.cols[reference_rows[l + 1] + 1], delta)),
                 query, reference_rows, delta, l + 1)

RECURSIVE DirectInteraction(_, _, _, _, _)
\* the loop over k of lines 981-997, from k on: the new densities
DirectInteraction(dens, query_rows, reference_rows, delta, k) ==
  IF k >= Len(query_rows) THEN dens
  ELSE LET query_row == query_rows[k + 1]
       IN DirectInteraction(
            [dens EXCEPT ![query_row + 1] =
               DirectRow(@, qset_.cols[query_row + 1], reference_rows, delta, 0)],
            query_rows, reference_rows, delta, k + 1)

\* DirectLocalAccumulation_: locexps afterwards.  The sums are added to arr,
\* a copy of the column (arma::vec arr = locexps.col(query_box_num)).
DirectLocalAccumulation_(rows, query_box_num, locexps) == locexps

\* ComputeMultipoleCoeffs_: mcoeffs afterwards.  The moments are written to
\* A_k, a copy of the column (arma::vec A_k = mcoeffs.col(ref_box_num)).
ComputeMultipoleCoeffs_(mcoeffsb, ref_box_num, rows) == mcoeffsb

\* TranslateMultipoleToLocal_: lcoeffsb afterwards.  The translated moments
\* are added to lcoeffs, a copy of the column.
TranslateMultipoleToLocal_(ref_box_num, query_box_num, mcoeffsb, lcoeffsb) == lcoeffsb

RECURSIVE AddToRows(_, _, _, _)
\* densities_[row] += x for the rows of the list, from k on
AddToRows(dens, rows, x, k) ==
  IF k >= Len(rows) THEN dens
  ELSE AddToRows([dens EXCEPT ![rows[k + 1] + 1] = FAdd(@, x)], rows, x, k + 1)

\* EvaluateMultipoleExpansion_: densities_ afterwards.  Each row gets the
\* dot product of the box's moments, all 0 in mcoeffsb, with arrtmp, which
\* is built from ref_hrcentroid, a column of center: multipolesum is one
\* of UninitReads.
EvaluateMultipoleExpansion_(dens, rows, mcoeffsb, ref_box_num, multipolesum) ==
  AddToRows(dens, rows, multipolesum, 0)

\* a plausible slip: the query threshold compared with < instead of <=
Regime_Slip(ninbox, ninnbr) ==
  IF ninbox <= cut.nfmax
  THEN IF ninnbr < cut.nlmax THEN "direct" ELSE "dla"
  ELSE IF ninnbr < cut.nlmax THEN "eval" ELSE "m2l"

\* which of the four branches of lines 964-1048 a reference box of ninbox
\* points and a neighbour of ninnbr queries take: the direct pair sums,
\* DirectLocalAccumulation_, EvaluateMultipoleExpansion_ or
\* TranslateMultipoleToLocal_
Regime(ninbox, ninnbr) ==
  IF ninbox <= cut.nfmax
  THEN IF ninnbr <= cut.nlmax THEN "direct" ELSE "dla"
  ELSE IF ninnbr <= cut.nlmax THEN "eval" ELSE "m2l"

RECURSIVE Arr0From(_, _, _, _)
\* what DirectLocalAccumulation_ adds to arr[0] for the first r rows, lines
\* 621-684: for each reference the product over the axes of hermite_map(d, 0)
\* = exp(-((x_Q[d] - x_r[d]) / sqrt(delta))^2), x_Q being read from center
\* (every cell of it reads as cell) and the factor of index 0 being 1
Arr0From(rows, cell, delta, r) ==
  IF r = 0 THEN 0
  ELSE LET x_r == rset_.cols[rows[r] + 1]
           x_Q == [d \in 1..Len(x_r) |-> cell]
       IN FAdd(Arr0From(rows, cell, delta, r - 1),
               IF cell = NaN THEN NaN ELSE Pot(x_Q, x_r, delta))

\* one call FinalizeSum_ makes: op is the function (or "direct" for the pair
\* sums), ref and dest the reference and the query box; was and now are
\* coefficient 0 of the matrix column the call is to update, before and
\* after it, and add is what the call computed for that coefficient
Call(op, ref, dest, was, now, add) ==
  [op |-> op, ref |-> ref, dest |-> dest, was |-> was, now |-> now, add |-> add]

RECURSIVE OverNeighbors(_, _, _, _, _)
\* the loops over j of lines 971-1010 and 1025-1048, from j on; st is
\* [dens, locexp, ops]
OverNeighbors(st, nbors, reference_rows, far, j) ==
  IF j >= Len(nbors) THEN st
  ELSE LET query_box_num == nbors[j + 1]
           query_rows == queries_assigned.mem[query_box_num + 1]
           ninnbr == Len(query_rows)
           delta == 2 * kernel_.bandwidth_sq
           regime == Regime(Len(reference_rows), ninnbr)
           was == st.locexp[query_box_num + 1][1]
           next ==
             CASE regime = "eval" ->
                    [st EXCEPT !.dens =
                       EvaluateMultipoleExpansion_(@, query_rows, mcoeffs,
                                                   far.box, far.sum),
                     !.ops = Append(@, Call("eval", far.box, query_box_num,
                                            mcoeffs[far.box + 1][1],
                                            mcoeffs[far.box + 1][1], 0))]
               [] regime = "m2l" ->
                    LET lcoeffsb == TranslateMultipoleToLocal_(far.box, query_box_num,
                                                               mcoeffs, st.locexp)
                    IN [st EXCEPT !.locexp = lcoeffsb,
                          !.ops = Append(@, Call("m2l", far.box, query_box_num, was,
                                                 lcoeffsb[query_box_num + 1][1],
                                                 far.sum))]
               [] regime = "direct" ->
                    [st EXCEPT !.dens =
                       DirectInteraction(@, query_rows, reference_rows, delta, 0),
                     !.ops = Append(@, Call("direct", far.box, query_box_num,
                                            0, 0, 0))]
               [] regime = "dla" ->
                    LET locexps == DirectLocalAccumulation_(reference_rows,
                                                            query_box_num, st.locexp)
                    IN [st EXCEPT !.locexp = locexps,
                          !.ops = Append(@, Call("dla", far.box, query_box_num, was,
                                                 locexps[query_box_num + 1][1],
                                                 Arr0From(reference_rows, far.cell,
                                                          delta, Len(reference_rows))))]
       IN OverNeighbors(next, nbors, reference_rows, far, j + 1)

\* whether the rows one pass of the loop reads are columns of the two sets
\* (a list can hold what its unconstructed cell held before Assign_)
BoxRowsOk(reference_rows, nbors) ==
  /\ RowsInRange(reference_rows, n_cols(rset_))
  /\ \A j \in 1..Len(nbors) :
       /\ nbors[j] < nboxes
       /\ RowsInRange(queries_assigned.mem[nbors[j] + 1], n_cols(qset_))

\* one pass of the loop of lines 953-1050, for box i = ibox
ProcessBox ==
  /\ pc = "boxes"
  /\ ibox < nboxes
  /\ LET reference_rows == references_assigned.mem[ibox + 1]
         ninbox == Len(reference_rows)
         nbors == MakeNeighbors_(ibox, nsides, cut.kdis, <<>>)
     IN IF ninbox <= 0
        THEN UNCHANGED <<densities_, locexp, mcoeffs, ops>> /\ ibox' = ibox + 1
             /\ pc' = IF ibox + 1 < nboxes THEN "boxes" ELSE "locals"
        ELSE IF ~BoxRowsOk(reference_rows, nbors)
        THEN UNCHANGED <<densities_, locexp, mcoeffs, ibox, ops>> /\ pc' = "fault"
        ELSE /\ mcoeffs' = IF ninbox <= cut.nfmax THEN mcoeffs
                           ELSE ComputeMultipoleCoeffs_(mcoeffs, ibox, reference_rows)
             /\ \E multipolesum \in UninitReads : \E cell \in UninitReads :
                  LET called == IF ninbox <= cut.nfmax THEN ops
                                ELSE Append(ops, Call("coeffs", ibox, ibox,
                                                      mcoeffs[ibox + 1][1],
                                                      mcoeffs'[ibox + 1][1], ninbox))
                      st == OverNeighbors([dens |-> densities_, locexp |-> locexp,
                                           ops |-> called],
                                          nbors, reference_rows,
                                          [box |-> ibox, sum |-> multipolesum,
                                           cell |-> cell], 0)
                  IN densities_' = st.dens /\ locexp' = st.locexp /\ ops' = st.ops
             /\ ibox' = ibox + 1
             /\ pc' = IF ibox + 1 < nboxes THEN "boxes" ELSE "locals"
  /\ UNCHANGED <<objvars, gridvars, nterms, srch, center, queries_assigned,
                 references_assigned, cut, runs, t>>

(***************************************************************************)
(* FinalizeSum_: the local expansions; NormalizeDensities_                  *)
(***************************************************************************)
\* a plausible slip: the boxes of exactly nlmax queries are evaluated too
EvaluatesLocal_Slip(ninbox) == ninbox >= cut.nlmax

\* whether the final pass evaluates the local expansion of a box of ninbox
\* queries, lines 883-885
EvaluatesLocal(ninbox) == ~(ninbox <= cut.nlmax)

RECURSIVE LocalsFrom(_, _, _)
\* the loop of lines 879-898 from box i on: each query of a box holding more
\* than nlmax queries gets result, the dot product of the box's local
\* moments (all 0 in locexp) with the powers of (x_q - x_Q) / h, x_Q being
\* a column of center: result is one of UninitReads
LocalsFrom(dens, i, result) ==
  IF i >= nboxes THEN dens
  ELSE LET query_rows == queries_assigned.mem[i + 1]
       IN LocalsFrom(IF EvaluatesLocal(Len(query_rows))
                     THEN AddToRows(dens, query_rows, result, 0)
                     ELSE dens,
                     i + 1, result)

RECURSIVE LocalCalls(_, _)
\* the boxes the loop of lines 879-898 evaluates, from box i on, appended to
\* the calls so far
LocalCalls(calls, i) ==
  IF i >= nboxes THEN calls
  ELSE LocalCalls(IF EvaluatesLocal(Len(queries_assigned.mem[i + 1]))
                  THEN Append(calls, Call("local", i, i, locexp[i + 1][1],
                                          locexp[i + 1][1], 0))
                  ELSE calls,
                  i + 1)

\* EvaluateLocalExpansionForAllQueries_: densities_ afterwards
EvaluateLocalExpansionForAllQueries_(dens, result) == LocalsFrom(dens, 0, result)

\* whether the rows that pass reads are columns of qset_
LocalRowsOk ==
  \A i \in 1..nboxes :
    EvaluatesLocal(Len(queries_assigned.mem[i])) =>
      RowsInRange(queries_assigned.mem[i], n_cols(qset_))

\* the last step of FinalizeSum_, lines 1053-1055
EvaluateLocals ==
  /\ pc = "locals"
  /\ IF LocalRowsOk
     THEN /\ \E result \in UninitReads :
               densities_' = EvaluateLocalExpansionForAllQueries_(densities_, result)
          /\ ops' = LocalCalls(ops, 0)
          /\ pc' = "normalize"
     ELSE UNCHANGED <<densities_, ops>> /\ pc' = "fault"
  /\ UNCHANGED <<objvars, gridvars, nterms, srch, boxvars, ibox, runs, t>>

\* 2.5066, the square root of 2 pi
Sqrt2Pi == 25066

RECURSIVE CalcNormConstant(_, _)
\* kernel_.CalcNormConstant(dims): (2 pi bandwidth_sq)^(dims / 2)
CalcNormConstant(k, dims) ==
  IF dims = 0 THEN Scale
  ELSE FMul(Sqrt2Pi * Bandwidth(k), CalcNormConstant(k, dims - 1))

\* densities_[q] /= norm_const
NormalizeOne(x, norm_const) == IF x = NaN THEN NaN ELSE FDiv(x, norm_const)

\* void NormalizeDensities_(), after which Compute returns
Normalize ==
  /\ pc = "normalize"
  /\ LET norm_const == CalcNormConstant(kernel_, qset_.n_rows) * n_cols(rset_)
     IN densities_' = [q \in 1..n_cols(qset_) |->
                         NormalizeOne(densities_[q], norm_const)]
  /\ runs' = Append(runs, densities_')
  /\ pc' = "done"
  /\ UNCHANGED <<objvars, gridvars, nterms, srch, boxvars, ibox, ops, t>>

(***************************************************************************)
(* The stride sweeps over the coefficient array                            *)
(***************************************************************************)
\* the content of a cell of a temporary array (arma::vec tmp(totalnumcoeffs),
\* arma::vec arrtmp(totalnumcoeffs)) that was not written yet.  The terms
\* the sweeps multiply are positive integers here, so a written cell is never
\* 0 and a product with a cell not written is again Unwritten.
Unwritten == 0

\* arma::vec tmp(totalnumcoeffs): no cell is written
TmpNew(totalnumcoeffs) == [i \in 1..totalnumcoeffs |-> Unwritten]

\* the largest number of terms per axis the sweeps are run with
MaxTerms == 3

\* a plausible slip: the factor is taken from the cell before, tmp[i - 1]
PowInner_Slip(tmp, x_j, i, limit, step) ==
  LET RECURSIVE Go(_, _)
      Go(a, k) == IF k >= limit THEN [tmp |-> a, i |-> k]
                  ELSE Go([a EXCEPT ![k + 1] = a[k] * x_j], k + step)
  IN Go(tmp, i)

RECURSIVE PowInner(_, _, _, _, _)
\* for( ; i < limit; i += step) tmp[i] = tmp[i - step] * x[j], lines 568-570
\* and 835-837: tmp and i afterwards
PowInner(tmp, x_j, i, limit, step) ==
  IF i >= limit THEN [tmp |-> tmp, i |-> i]
  ELSE PowInner([tmp EXCEPT ![i + 1] = tmp[i - step + 1] * x_j],
                x_j, i + step, limit, step)

RECURSIVE PowMiddle(_, _, _, _, _, _)
\* for(i = 0; i < totalnumcoeffs; ) { limit = i + boundary; i += step; ... }
PowMiddle(tmp, x_j, i, totalnumcoeffs, boundary, step) ==
  IF i >= totalnumcoeffs THEN tmp
  ELSE LET r == PowInner(tmp, x_j, i + step, i + boundary, step)
       IN PowMiddle(r.tmp, x_j, r.i, totalnumcoeffs, boundary, step)

RECURSIVE PowOuter(_, _, _, _, _, _, _)
\* for(boundary = totalnumcoeffs, step = totalnumcoeffs / p_alpha, j = 0;
\*     step >= 1; step /= p_alpha, boundary /= p_alpha, j++), from j on
PowOuter(tmp, x, totalnumcoeffs, p_alpha, boundary, step, j) ==
  IF step < 1 THEN tmp
  ELSE PowOuter(PowMiddle(tmp, x[j + 1], 0, totalnumcoeffs, boundary, step),
                x, totalnumcoeffs, p_alpha,
                boundary \div p_alpha, step \div p_alpha, j + 1)

\* tmp when ComputeMultipoleCoeffs_ has swept one reference point whose
\* scaled offsets from the centre are x (lines 548-572): with p_alpha = 1
\* nothing is written, tmp[0] = 1.0 being inside if(p_alpha > 1)
ComputeMultipoleTmp(x, totalnumcoeffs, p_alpha) ==
  IF p_alpha > 1
  THEN PowOuter([TmpNew(totalnumcoeffs) EXCEPT ![1] = 1], x, totalnumcoeffs,
                p_alpha, totalnumcoeffs, totalnumcoeffs \div p_alpha, 0)
  ELSE TmpNew(totalnumcoeffs)

\* the cells of tmp the accumulation of ComputeMultipoleCoeffs_ reads:
\* for(i = 1; i < totalnumcoeffs; i++) A_k[i] = A_k[i] + tmp[i]
ComputeMultipoleReads(totalnumcoeffs) == 1..(totalnumcoeffs - 1)

\* tmp when EvaluateLocalExpansion_ has swept the scaled offsets x of the
\* query (lines 822-840)
EvaluateLocalTmp(x, totalnumcoeffs, p_alpha) ==
  LET tmp == [TmpNew(totalnumcoeffs) EXCEPT ![1] = 1]
  IN IF totalnumcoeffs > 1
     THEN PowOuter(tmp, x, totalnumcoeffs, p_alpha, totalnumcoeffs,
                   totalnumcoeffs \div p_alpha, 0)
     ELSE tmp

\* the cells of tmp the accumulation of EvaluateLocalExpansion_ reads:
\* for(i = 0; i < totalnumcoeffs; i++) multipolesum += lcoeffs[i] * tmp[i]
EvaluateLocalReads(totalnumcoeffs) == 0..(totalnumcoeffs - 1)

RECURSIVE HermiteInner(_, _, _, _, _, _, _)
\* for(j = 1; i < limit; i += step, j++)
\*   arrtmp[i] = arrtmp[first] * hermite_map(d, j): arrtmp and i afterwards
HermiteInner(arrtmp, row, first, i, limit, step, j) ==
  IF i >= limit THEN [arrtmp |-> arrtmp, i |-> i]
  ELSE HermiteInner([arrtmp EXCEPT ![i + 1] = arrtmp[first + 1] * row[j + 1]],
                    row, first, i + step, limit, step, j + 1)

RECURSIVE HermiteMiddle(_, _, _, _, _, _)
\* for(i = 0; i < totalnumcoeffs; ) { limit = i + boundary; first = i;
\*   i += step; ...; arrtmp[first] *= hermite_map(d, 0); }
HermiteMiddle(arrtmp, row, i, totalnumcoeffs, boundary, step) ==
  IF i >= totalnumcoeffs THEN arrtmp
  ELSE LET r == HermiteInner(arrtmp, row, i, i + step, i + boundary, step, 1)
       IN HermiteMiddle([r.arrtmp EXCEPT ![i + 1] = @ * row[1]], row, r.i,
                        totalnumcoeffs, boundary, step)

RECURSIVE HermiteOuter(_, _, _, _, _, _, _)
\* the loop over boundary, step and d of lines 658-674, from d on
HermiteOuter(arrtmp, hermite_map, totalnumcoeffs, p_alpha, boundary, step, d) ==
  IF step < 1 THEN arrtmp
  ELSE HermiteOuter(HermiteMiddle(arrtmp, hermite_map[d + 1], 0,
                                  totalnumcoeffs, boundary, step),
                    hermite_map, totalnumcoeffs, p_alpha,
                    boundary \div p_alpha, step \div p_alpha, d + 1)

RECURSIVE HermiteSeed(_, _, _, _)
\* for(d = 0; d < dim; d++) arrtmp[0] *= hermite_map(d, 0), from d on
HermiteSeed(arrtmp, hermite_map, dim, d) ==
  IF d >= dim THEN arrtmp
  ELSE HermiteSeed([arrtmp EXCEPT ![1] = @ * hermite_map[d + 1][1]],
                   hermite_map, dim, d + 1)

\* arrtmp when DirectLocalAccumulation_ has swept one reference point whose
\* table of per-axis terms is hermite_map (lines 653-680); the sweep of
\* EvaluateMultipoleExpansion_, lines 752-778, is the same text
DirectLocalTmp(hermite_map, dim, totalnumcoeffs, p_alpha) ==
  LET arrtmp == [TmpNew(totalnumcoeffs) EXCEPT ![1] = 1]
  IN IF p_alpha > 1
     THEN HermiteOuter(arrtmp, hermite_map, totalnumcoeffs, p_alpha,
                       totalnumcoeffs, totalnumcoeffs \div p_alpha, 0)
     ELSE HermiteSeed(arrtmp, hermite_map, dim, 0)

\* the cells of arrtmp the accumulation of DirectLocalAccumulation_ reads:
\* for(j = 0; j < totalnumcoeffs; j++) arr[j] = arr[j] + ... * arrtmp[j]
DirectLocalReads(totalnumcoeffs) == 0..(totalnumcoeffs - 1)

(***************************************************************************)
(* Single calls of the index functions                                      *)
(***************************************************************************)
\* the grids: nsides of 1..MaxDim axes with 1..MaxSide boxes along each
Grids == {VecOf(s) : s \in UNION {[1..d -> 1..MaxSide] : d \in 1..MaxDim}}

\* the coordinate tuples on grid n
Tuples(n) == {c \in [1..n.size -> 0..(MaxSide - 1)] :
                \A d \in 1..n.size : c[d] < n.mem[d]}

NoCall == [op |-> "none", n |-> VecOf(<<>>), index |-> 0, coords |-> VecOf(<<>>),
           kdis |-> 0, back |-> 0, ret |-> <<>>]

\* SingleDimIndexInMultiArray_(n, index, coords) on a box id of grid n,
\* coords having one cell per axis
CallDecode ==
  /\ t.op = "none"
  /\ \E n \in Grids : \E index \in 0..(ProdSeq(n.mem, n.size) - 1) :
       t' = [NoCall EXCEPT !.op = "decoded", !.n = n, !.index = index,
               !.coords = SingleDimIndexInMultiArray_(n, index, VecSized(n.size))]
  /\ UNCHANGED <<pc, objvars, densities_, gridvars, nterms, srch, boxvars, ibox, runs, ops>>

\* MultiDimIndexInSingleArray_(coords, n) on what CallDecode returned
CallEncodeBack ==
  /\ t.op = "decoded"
  /\ t' = [t EXCEPT !.op = "decoded-encoded",
                    !.back = MultiDimIndexInSingleArray_(t.coords, t.n)]
  /\ UNCHANGED <<pc, objvars, densities_, gridvars, nterms, srch, boxvars, ibox, runs, ops>>

\* MultiDimIndexInSingleArray_(coords, n) on a coordinate tuple of grid n
CallEncode ==
  /\ t.op = "none"
  /\ \E n \in Grids : \E c \in Tuples(n) :
       t' = [NoCall EXCEPT !.op = "encoded", !.n = n, !.coords = VecOf(c),
               !.index = MultiDimIndexInSingleArray_(VecOf(c), n)]
  /\ UNCHANGED <<pc, objvars, densities_, gridvars, nterms, srch, boxvars, ibox, runs, ops>>

\* SingleDimIndexInMultiArray_(n, index, coords) on what CallEncode returned
CallDecodeBack ==
  /\ t.op = "encoded"
  /\ t' = [t EXCEPT !.op = "encoded-decoded",
                    !.back = SingleDimIndexInMultiArray_(t.n, t.index,
                                                         VecSized(t.n.size))]
  /\ UNCHANGED <<pc, objvars, densities_, gridvars, nterms, srch, boxvars, ibox, runs, ops>>

\* MakeNeighbors_(ibox, nsides, kdis, ret) with an empty ret
CallNeighbors ==
  /\ t.op = "none"
  /\ \E n \in Grids : \E index \in 0..(ProdSeq(n.mem, n.size) - 1) :
     \E kdis \in 0..MaxKdis :
       t' = [NoCall EXCEPT !.op = "neighbors", !.n = n, !.index = index,
               !.kdis = kdis, !.ret = MakeNeighbors_(index, n, kdis, <<>>)]
  /\ UNCHANGED <<pc, objvars, densities_, gridvars, nterms, srch, boxvars, ibox, runs, ops>>

(***************************************************************************)
(* The specifications                                                       *)
(***************************************************************************)
\* the object as the constructor leaves it (FGTKde() does nothing)
Init ==
  /\ pc = "new"
  /\ io = [bandwidth |-> 0, absolute_error |-> 0]
  /\ qset_ = Mat(0, <<>>) /\ rset_ = Mat(0, <<>>)
  /\ kernel_ = [bandwidth_sq |-> 0] /\ tau_ = 0
  /\ densities_ = <<>>
  /\ nsides = VecOf(<<>>) /\ sidelengths = <<>> /\ mincoords = <<>>
  /\ nboxes = 0 /\ nterms = 0
  /\ srch = SearchStart(0, 0)
  /\ center = <<>> /\ locexp = <<>> /\ mcoeffs = <<>>
  /\ queries_assigned = VecOf(<<>>) /\ references_assigned = VecOf(<<>>)
  /\ cut = [kdis |-> 0, nfmax |-> 0, nlmax |-> 0]
  /\ ibox = 0
  /\ runs = <<>>
  /\ ops = <<>>
  /\ t = NoCall

\* the inputs of Init: for each <<query rows, reference rows>> of dims, the
\* query sets of at most qn points, the reference sets of rmin..rn points,
\* the bandwidths bws and the tolerances taus
Inputs(dims, qn, rmin, rn, bws, taus) ==
  UNION {{[q |-> Mat(d[1], q), r |-> Mat(d[2], r), bw |-> bw, tau |-> tau] :
            q \in PointSeqs(d[1], qn),
            r \in {s \in PointSeqs(d[2], rn) : Len(s) >= rmin},
            bw \in bws, tau \in taus} : d \in dims}

\* accepted inputs in one dimension
InitRun == InitWith(Inputs({<<1, 1>>}, MaxPts, 1, MaxPts, 1..MaxBw, Taus))

\* Init, then Compute, and Compute once more
Next ==
  \/ InitRun
  \/ ComputeBegin
  \/ SearchStep
  \/ Allocate
  \/ Assign
  \/ ProcessBox
  \/ EvaluateLocals
  \/ Normalize
  \/ ComputeAgain

Spec == Init /\ [][Next]_vars

\* single calls of the index functions
NextIdx ==
  \/ CallDecode
  \/ CallEncodeBack
  \/ CallEncode
  \/ CallDecodeBack
  \/ CallNeighbors

SpecIdx == Init /\ [][NextIdx]_vars

\* accepted inputs in 1..MaxDim dimensions
InitGrid ==
  InitWith(Inputs({<<dim, dim>> : dim \in 1..MaxDim}, MaxPts, 1, MaxPts,
                  1..MaxBw, Taus))

\* Init, then Compute up to the end of Assign_
NextGrid ==
  \/ InitGrid
  \/ ComputeBegin
  \/ SearchStep
  \/ Allocate
  \/ Assign

SpecGrid == Init /\ [][NextGrid]_vars

\* the most points of a set of InitFar: enough for a box to pass the
\* cut-offs nfmax and nlmax, which are 3 in one dimension
MaxFar == 4

\* accepted inputs in one dimension with up to MaxFar points in a set
InitFar == InitWith(Inputs({<<1, 1>>}, MaxFar, 1, MaxFar, 1..MaxBw, Taus))

\* Init with up to MaxFar points in a set, then Compute
NextFar ==
  \/ InitFar
  \/ ComputeBegin
  \/ SearchStep
  \/ Allocate
  \/ Assign
  \/ ProcessBox
  \/ EvaluateLocals
  \/ Normalize

SpecFar == Init /\ [][NextFar]_vars

\* the bandwidths and tolerances of the inputs of InitAny: a negative, a zero
\* and an accepted bandwidth; tolerances -0.1, 0.1, 1 and 2
AnyBws == {-1, 0, 1}
AnyTaus == {-(Scale \div 10), Scale \div 10, Scale, 2 * Scale}

\* inputs nothing is assumed of: sets of at most one point, of 1..MaxDim rows
\* each, an empty reference set and sets of different dimensions included
InitAny ==
  InitWith(Inputs((1..MaxDim) \X (1..MaxDim), 1, 0, 1, AnyBws, AnyTaus))

\* Init with any input, then Compute
NextAny ==
  \/ InitAny
  \/ ComputeBegin
  \/ SearchStep
  \/ Allocate
  \/ Assign
  \/ ProcessBox
  \/ EvaluateLocals
  \/ Normalize

SpecAny == Init /\ [][NextAny]_vars

\* the per-axis terms of the sweeps: two values, so that the axes differ
Terms == {2, 3}

\* the sweep of ComputeMultipoleCoeffs_ for one reference point, in dim
\* dimensions with p_alpha terms per axis
CallComputeMultipoleTmp ==
  /\ t.op = "none"
  /\ \E dim \in 1..MaxDim : \E p_alpha \in 1..MaxTerms : \E x \in [1..dim -> Terms] :
       LET totalnumcoeffs == IntPow(p_alpha, dim)
       IN t' = [op |-> "sweep", of |-> "coeffs", dim |-> dim, p_alpha |-> p_alpha,
                x |-> x, reads |-> ComputeMultipoleReads(totalnumcoeffs),
                tmp |-> ComputeMultipoleTmp(x, totalnumcoeffs, p_alpha)]
  /\ UNCHANGED <<pc, objvars, densities_, gridvars, nterms, srch, boxvars, ibox,
                 runs, ops>>

\* the sweep of EvaluateLocalExpansion_ for one query
CallEvaluateLocalTmp ==
  /\ t.op = "none"
  /\ \E dim \in 1..MaxDim : \E p_alpha \in 1..MaxTerms : \E x \in [1..dim -> Terms] :
       LET totalnumcoeffs == IntPow(p_alpha, dim)
       IN t' = [op |-> "sweep", of |-> "local", dim |-> dim, p_alpha |-> p_alpha,
                x |-> x, reads |-> EvaluateLocalReads(totalnumcoeffs),
                tmp |-> EvaluateLocalTmp(x, totalnumcoeffs, p_alpha)]
  /\ UNCHANGED <<pc, objvars, densities_, gridvars, nterms, srch, boxvars, ibox,
                 runs, ops>>

\* the sweep of DirectLocalAccumulation_ for one reference point (and of
\* EvaluateMultipoleExpansion_ for one query)
CallDirectLocalTmp ==
  /\ t.op = "none"
  /\ \E dim \in 1..MaxDim : \E p_alpha \in 1..MaxTerms :
       \E hermite_map \in [1..dim -> [1..p_alpha -> Terms]] :
         LET totalnumcoeffs == IntPow(p_alpha, dim)
         IN t' = [op |-> "table", dim |-> dim, p_alpha |-> p_alpha,
                  hermite_map |-> hermite_map,
                  reads |-> DirectLocalReads(totalnumcoeffs),
                  tmp |-> DirectLocalTmp(hermite_map, dim, totalnumcoeffs, p_alpha)]
  /\ UNCHANGED <<pc, objvars, densities_, gridvars, nterms, srch, boxvars, ibox,
                 runs, ops>>

\* one sweep
NextSweep ==
  \/ CallComputeMultipoleTmp
  \/ CallEvaluateLocalTmp
  \/ CallDirectLocalTmp

SpecSweep == Init /\ [][NextSweep]_vars

\* accepted inputs in one and two dimensions, without queries
InitPre ==
  InitWith(Inputs({<<1, 1>>, <<2, 2>>}, 0, 1, MaxPts, 1..MaxBw, Taus))

\* Init, then Compute up to the end of FastGaussTransformPreprocess_
NextPre ==
  \/ InitPre
  \/ ComputeBegin
  \/ SearchStep

SpecPre == Init /\ [][NextPre]_vars

\* tolerances of InitNear: 0.9, for which the cut-off kdis is one box, and
\* the tolerances of the other runs
NearTaus == {(9 * Scale) \div 10} \cup Taus

\* accepted inputs in one dimension, a tolerance near 1 among them
InitNear == InitWith(Inputs({<<1, 1>>}, MaxPts, 1, MaxPts, 1..MaxBw, NearTaus))

\* Init, then Compute up to the end of the loop over the reference boxes
NextNear ==
  \/ InitNear
  \/ ComputeBegin
  \/ SearchStep
  \/ Allocate
  \/ Assign
  \/ ProcessBox

SpecNear == Init /\ [][NextNear]_vars

(***************************************************************************)
(* The claims                                                               *)
(***************************************************************************)
\* how often index x occurs in the cells of the per-box lists
Occurrences(lists, x) ==
  Cardinality({bk \in UNION {{<<b, k>> : k \in 1..Len(lists.mem[b])} :
                               b \in 1..Len(lists.mem)} :
                 lists.mem[bk[1]][bk[2]] = x})

\* the per-box lists hold each of the indices 0..n-1 once and nothing else
IsPartition(lists, n) ==
  /\ Len(lists.mem) = nboxes
  /\ \A x \in 0..(n - 1) : Occurrences(lists, x) = 1
  /\ \A b \in 1..Len(lists.mem) : RowsInRange(lists.mem[b], n)

\* C1: after Assign_ every reference index 0..Nr-1 is in exactly one per-box
\* reference list exactly once and every query index 0..Nq-1 is in exactly
\* one per-box query list exactly once, and the lists hold nothing else.
C1_Partition ==
  pc = "boxes" =>
    /\ IsPartition(references_assigned, n_cols(rset_))
    /\ IsPartition(queries_assigned, n_cols(qset_))

\* C2: decoding a box id of a grid and encoding the coordinates again gives
\* the id back; a coordinate tuple on the grid encodes to an id in
\* [0, nboxes) and that id decodes to the tuple.
C2_RoundTrip ==
  /\ t.op = "decoded" =>
       \A d \in 1..t.n.size : t.coords.mem[d] \in 0..(t.n.mem[d] - 1)
  /\ t.op = "decoded-encoded" => t.back = t.index
  /\ t.op = "encoded" => t.index \in 0..(ProdSeq(t.n.mem, t.n.size) - 1)
  /\ t.op = "encoded-decoded" => VecElems(t.back) = VecElems(t.coords)

\* the last box of the 2 x 3 grid was decoded to (1, 2) and encoded again
C2_Witness ==
  /\ t.op = "decoded-encoded"
  /\ t.n.mem = <<2, 3>>
  /\ t.index = 5
  /\ t.coords.mem = <<1, 2>>

\* the bins Assign_ can give point p on axis di (1-based)
BinsOf(p, di) ==
  {ClampBin(bn, VecGet(nsides, di - 1)) :
     bn \in Binnums(p[di], mincoords[di], sidelengths[di])}

\* C3: in Assign_ every reference and query point gets on each axis a bin
\* index in [0, nsides[d] - 1] and so exactly one box id in [0, nboxes),
\* whether it lies in a cell, on a cell boundary, on the maximum face of the
\* bounding box or outside the bounding box.
C3_BinInRange ==
  pc \in {"assign", "boxes"} /\ qset_.n_rows <= rset_.n_rows =>
    \A m \in {qset_, rset_} : \A r \in 1..n_cols(m) :
      LET boxnums == Boxnums(m.cols[r], qset_.n_rows, nsides, sidelengths, mincoords)
      IN /\ \A di \in 1..qset_.n_rows :
              BinsOf(m.cols[r], di) \subseteq 0..(VecGet(nsides, di - 1) - 1)
         /\ boxnums \subseteq 0..(nboxes - 1)
         /\ Cardinality(boxnums) = 1

\* Assign_ has run on a query that is on the boundary between the first two
\* cells of one axis and beyond the maximum face on another (the reference
\* points at the maximum are on the maximum face)
C3_Witness ==
  /\ pc = "boxes"
  /\ \E q \in 1..n_cols(qset_) : \E d1, d2 \in 1..qset_.n_rows :
       /\ VecGet(nsides, d1 - 1) >= 2
       /\ (qset_.cols[q][d1] - mincoords[d1]) * sidelengths[d1].den
            = sidelengths[d1].num
       /\ (qset_.cols[q][d2] - mincoords[d2]) * sidelengths[d2].den
            > sidelengths[d2].num * VecGet(nsides, d2 - 1)

RECURSIVE BruteSum(_, _)
\* the sum of exp(-||q - r||^2 / (2 bandwidth^2)) over the first l references
BruteSum(query, l) ==
  IF l = 0 THEN 0
  ELSE BruteSum(query, l - 1) + Pot(query, rset_.cols[l], 2 * kernel_.bandwidth_sq)

\* the brute-force estimate for query column q (1-based)
BruteForce(q) ==
  NormalizeOne(BruteSum(qset_.cols[q], n_cols(rset_)),
               CalcNormConstant(kernel_, qset_.n_rows) * n_cols(rset_))

Abs(x) == IF x < 0 THEN -x ELSE x

\* C4: for every query the density Compute returns is within tau of the
\* brute-force estimate.  Stated of the runs in which the box lists are a
\* partition of the indices, so that what is refuted does not rest on what
\* the unconstructed lists held.
C4_Accuracy ==
  /\ pc = "done"
  /\ IsPartition(references_assigned, n_cols(rset_))
  /\ IsPartition(queries_assigned, n_cols(qset_))
  => \A q \in 1..n_cols(qset_) :
       /\ densities_[q] # NaN
       /\ Abs(densities_[q] - BruteForce(q)) <= tau_

\* C5: two Compute calls with the same query set, reference set, bandwidth
\* and tau give identical density vectors.
C5_Deterministic == Len(runs) = 2 => runs[1] = runs[2]

\* bandwidth <= 0, or tau <= 0, or tau >= 1
BadConfiguration ==
  io.bandwidth <= 0 \/ io.absolute_error <= 0 \/ io.absolute_error >= Scale

\* sets of different dimensions, or no reference point
BadSets == qset_.n_rows # rset_.n_rows \/ n_cols(rset_) = 0

\* C6: a configuration with bandwidth <= 0, tau <= 0 or tau >= 1 is rejected
\* before any grid planning, point assignment or density accumulation, and no
\* density vector is produced for it.  Stated of the configurations that come
\* with sets of one dimension and a reference point: Init has returned and
\* Compute has not gone beyond its entry.
C6_ConfigurationRejected ==
  pc # "new" /\ BadConfiguration /\ ~BadSets => pc = "inited" /\ runs = <<>>

\* C7: a query and a reference set of different dimensions, and an empty
\* reference set, are rejected before any grid planning, point assignment or
\* density accumulation.  Stated of the sets that come with an accepted
\* configuration: Init has returned and Compute has not gone beyond its entry.
C7_SetsRejected == pc # "new" /\ BadSets /\ ~BadConfiguration => pc = "inited"

\* C8: the truncation-order search is bounded by a hard maximum order: it has
\* stopped, with an order or with a fatal error, before order MaxOrder, also
\* for the inputs for which the bound never comes down to tau.
C8_SearchCapped == pc = "search" => srch.ip < MaxOrder

\* all reference points are the same point
Coincident ==
  /\ n_cols(rset_) >= 1
  /\ \A i, j \in 1..n_cols(rset_) : rset_.cols[i] = rset_.cols[j]

\* C9: with coincident reference points the grid is one box (nsides 1 on
\* every axis), Assign_ puts every reference and query point in box 0, no
\* bin index comes from a division by a zero side length, and the centroid
\* of the box is defined.
C9_Degenerate ==
  pc = "boxes" /\ Coincident =>
    /\ \A di \in 1..rset_.n_rows : VecGet(nsides, di - 1) = 1
    /\ nboxes = 1
    /\ \A r \in 0..(n_cols(rset_) - 1) :
         \E k \in 1..Len(references_assigned.mem[1]) :
           references_assigned.mem[1][k] = r
    /\ \A q \in 0..(n_cols(qset_) - 1) :
         \E k \in 1..Len(queries_assigned.mem[1]) :
           queries_assigned.mem[1][k] = q
    /\ \A di \in 1..qset_.n_rows : sidelengths[di].num # 0
    /\ \A j \in 1..rset_.n_rows : center[1][j] # Uninit

\* the ids of the boxes of grid n whose coordinates differ from those of box
\* index by at most kdis on every axis
Chebyshev(n, index, kdis) ==
  LET own == SingleDimIndexInMultiArray_(n, index, VecSized(n.size)).mem
  IN {MultiDimIndexInSingleArray_(VecOf(c), n) :
        c \in {c \in Tuples(n) :
                 \A d \in 1..n.size : Abs(c[d] - own[d]) <= kdis}}

\* C10: MakeNeighbors_ appends to ret exactly the ids of the boxes within
\* kdis of ibox on every axis, each once, ibox itself included.
C10_Neighbors ==
  t.op = "neighbors" =>
    /\ {t.ret[k] : k \in 1..Len(t.ret)} = Chebyshev(t.n, t.index, t.kdis)
    /\ Len(t.ret) = Cardinality(Chebyshev(t.n, t.index, t.kdis))

\* the box whose list holds index x, the lists being a partition
BoxOf(lists, x) ==
  CHOOSE b \in 0..(nboxes - 1) :
    \E k \in 1..Len(lists.mem[b + 1]) : lists.mem[b + 1][k] = x

RECURSIVE InRangeSum(_, _)
\* the sum of exp(-||q - r||^2 / delta) over those of the first l reference
\* points whose box is within kdis of the box of query column q (1-based)
InRangeSum(q, l) ==
  IF l = 0 THEN 0
  ELSE InRangeSum(q, l - 1)
       + IF BoxOf(references_assigned, l - 1)
              \in Chebyshev(VecOf(nsides.mem), BoxOf(queries_assigned, q - 1),
                            cut.kdis)
         THEN Pot(qset_.cols[q], rset_.cols[l], 2 * kernel_.bandwidth_sq)
         ELSE 0

\* every box holds few enough points for the direct pair sums
AllDirect ==
  \A b \in 1..nboxes :
    /\ Len(references_assigned.mem[b]) <= cut.nfmax
    /\ Len(queries_assigned.mem[b]) <= cut.nlmax

\* C11: when FinalizeSum_ is over every query has received the contribution
\* of every non-empty reference box within kdis of its box exactly once.
\* Stated of the runs in which the box lists are a partition of the indices
\* and every box is small enough for the direct pair sums, where the
\* contribution of a box is the sum of its pairs.
C11_Contributions ==
  /\ pc = "normalize"
  /\ IsPartition(references_assigned, n_cols(rset_))
  /\ IsPartition(queries_assigned, n_cols(qset_))
  /\ AllDirect
  => \A q \in 1..n_cols(qset_) : densities_[q] = InRangeSum(q, n_cols(rset_))

\* the calls of ops that handle a pair of a reference box and a query box
PairOps == {"direct", "dla", "eval", "m2l"}

\* the calls so far of reference box b on query box c
PairCalls(b, c) ==
  {k \in 1..Len(ops) : ops[k].op \in PairOps /\ ops[k].ref = b /\ ops[k].dest = c}

\* FinalizeSum_ is at or past its loop over the reference boxes
InFinalizeSum == pc \in {"boxes", "locals", "normalize", "done"}

\* C12: for every reference box b the loop has handled and every neighbour c
\* that MakeNeighbors_ returns for b exactly one operation was applied,
\* chosen by the counts alone: nothing at all for an empty b; the direct pair
\* sums, DirectLocalAccumulation_, EvaluateMultipoleExpansion_ or
\* TranslateMultipoleToLocal_ as refs(b) <= nfmax or not and queries(c) <=
\* nlmax or not; and nfmax = nlmax = nterms^(D-1) + 2.
C12_Regimes ==
  InFinalizeSum =>
    /\ cut.nfmax = IntPow(nterms, qset_.n_rows - 1) + 2
    /\ cut.nlmax = cut.nfmax
    /\ \A b \in 0..(ibox - 1) :
         LET nref == Len(references_assigned.mem[b + 1])
             nbors == MakeNeighbors_(b, nsides, cut.kdis, <<>>)
             neighbours == {nbors[j] : j \in 1..Len(nbors)}
         IN IF nref = 0
            THEN \A k \in 1..Len(ops) : ops[k].op # "local" => ops[k].ref # b
            ELSE /\ \A c \in neighbours :
                      LET nq == Len(queries_assigned.mem[c + 1])
                      IN /\ Cardinality(PairCalls(b, c)) = 1
                         /\ \A k \in PairCalls(b, c) :
                              /\ nref <= cut.nfmax /\ nq <= cut.nlmax
                                   => ops[k].op = "direct"
                              /\ nref <= cut.nfmax /\ nq > cut.nlmax
                                   => ops[k].op = "dla"
                              /\ nref > cut.nfmax /\ nq <= cut.nlmax
                                   => ops[k].op = "eval"
                              /\ nref > cut.nfmax /\ nq > cut.nlmax
                                   => ops[k].op = "m2l"
                 /\ \A c \in (0..(nboxes - 1)) \ neighbours : PairCalls(b, c) = {}

\* the loop is over, and a reference box of exactly nfmax points was
\* accumulated into the local expansion of a box of more than nlmax queries
C12_Witness ==
  /\ pc = "locals"
  /\ \E k \in 1..Len(ops) :
       /\ ops[k].op = "dla"
       /\ Len(references_assigned.mem[ops[k].ref + 1]) = cut.nfmax
       /\ Len(queries_assigned.mem[ops[k].dest + 1]) > cut.nlmax

\* the calls of ComputeMultipoleCoeffs_ so far for box b
CoeffCalls(b) == {k \in 1..Len(ops) : ops[k].op = "coeffs" /\ ops[k].ref = b}

\* C13: within one Compute the far-field expansion of a box is computed at
\* most once, and every read of the box's coefficients by
\* EvaluateMultipoleExpansion_ or TranslateMultipoleToLocal_ comes after the
\* call of ComputeMultipoleCoeffs_ for the box and finds what that call
\* computed (coefficient 0: the number of points the call counted).  An
\* evaluation over no query reads nothing.
C13_FarFieldOnce ==
  InFinalizeSum =>
    /\ \A b \in 0..(nboxes - 1) : Cardinality(CoeffCalls(b)) <= 1
    /\ \A k \in 1..Len(ops) :
         (\/ ops[k].op = "m2l"
          \/ /\ ops[k].op = "eval"
             /\ Len(queries_assigned.mem[ops[k].dest + 1]) > 0) =>
           \E j \in CoeffCalls(ops[k].ref) :
             /\ j < k
             /\ mcoeffs[ops[k].ref + 1][1] = ops[j].add

\* C14: ComputeMultipoleCoeffs_ on a box whose expansion is not computed yet
\* (coefficient 0 of its column is 0) leaves coefficient 0 of the column equal
\* to the number of reference points of the box; on a box already computed it
\* leaves the column as it is; the columns of the other boxes stay as they
\* are.  Stated of the step of the loop that makes the call.
C14_CoeffsStored ==
  [][pc = "boxes" /\ pc' # "fault"
     /\ Len(references_assigned.mem[ibox + 1]) > cut.nfmax
     => /\ mcoeffs[ibox + 1][1] = 0
             => mcoeffs'[ibox + 1][1] = Len(references_assigned.mem[ibox + 1])
        /\ mcoeffs[ibox + 1][1] # 0 => mcoeffs'[ibox + 1] = mcoeffs[ibox + 1]
        /\ \A b \in 1..nboxes : b # ibox + 1 => mcoeffs'[b] = mcoeffs[b]]_vars

\* C15: every call of DirectLocalAccumulation_ or TranslateMultipoleToLocal_
\* leaves the column of its destination box equal to what it was plus what
\* the call computed (stated of coefficient 0), so that the local expansion
\* of a box is the sum of what was accumulated for it.
C15_LocalAdditive ==
  InFinalizeSum =>
    \A k \in 1..Len(ops) :
      ops[k].op \in {"dla", "m2l"} => ops[k].now = FAdd(ops[k].was, ops[k].add)

\* C16: the local expansion of a box holding at most nlmax queries is all
\* zero in every state, no call of DirectLocalAccumulation_ or
\* TranslateMultipoleToLocal_ has such a box as its destination, and the final
\* pass evaluates no local expansion for it.
C16_SmallBoxesNoLocal ==
  InFinalizeSum =>
    /\ \A b \in 1..nboxes :
         Len(queries_assigned.mem[b]) <= cut.nlmax =>
           \A j \in 1..Len(locexp[b]) : locexp[b][j] = 0
    /\ \A k \in 1..Len(ops) :
         ops[k].op \in {"dla", "m2l", "local"} =>
           Len(queries_assigned.mem[ops[k].dest + 1]) > cut.nlmax

\* FinalizeSum_ is over: the final pass has evaluated a box that was the
\* destination of DirectLocalAccumulation_, and another call had a
\* destination of few enough queries for the direct pair sums
C16_Witness ==
  /\ pc = "normalize"
  /\ \E k, l \in 1..Len(ops) :
       ops[k].op = "dla" /\ ops[l].op = "local" /\ ops[l].dest = ops[k].dest

\* mincoords[d] + (c + 0.5) * h as a fraction, h being the fraction num/den
CenterAt(mincoord, c, h) ==
  Rat(2 * mincoord * h.den + (2 * c + 1) * h.num, 2 * h.den)

\* C17: after Assign_, for every box i and axis d, column i of center holds
\* mincoords[d] + (c[d] + 0.5) * sidelengths[d], c being the coordinates
\* SingleDimIndexInMultiArray_ decodes i into.
C17_Centers ==
  pc = "boxes" =>
    \A i \in 0..(nboxes - 1) :
      LET c == SingleDimIndexInMultiArray_(nsides, i, VecSized(qset_.n_rows))
      IN \A d \in 1..qset_.n_rows :
           /\ center[i + 1][d] # Uninit
           /\ center[i + 1][d] = CenterAt(mincoords[d], VecGet(c, d - 1),
                                          sidelengths[d])

\* the bin of point p on each axis, BinsOf being one bin on every axis
BinTuple(p) == [d \in 1..qset_.n_rows |-> CHOOSE b \in BinsOf(p, d) : TRUE]

Digit(i, j, p_alpha, dim) == (i \div IntPow(p_alpha, dim - 1 - j)) % p_alpha

RECURSIVE PowerProduct(_, _, _, _, _)
\* the product over the axes j < k of x[j] to the power of digit j of i
PowerProduct(x, i, p_alpha, dim, k) ==
  IF k = 0 THEN 1
  ELSE PowerProduct(x, i, p_alpha, dim, k - 1)
         * IntPow(x[k], Digit(i, k - 1, p_alpha, dim))

RECURSIVE TableProduct(_, _, _, _, _)
\* the product over the axes j < k of hermite_map(j, digit j of i)
TableProduct(hermite_map, i, p_alpha, dim, k) ==
  IF k = 0 THEN 1
  ELSE TableProduct(hermite_map, i, p_alpha, dim, k - 1)
         * hermite_map[k][Digit(i, k - 1, p_alpha, dim) + 1]

RECURSIVE NsidesProduct(_)
\* nsides[0] * ... * nsides[k - 1]
NsidesProduct(k) == IF k = 0 THEN 1 ELSE NsidesProduct(k - 1) * VecGet(nsides, k - 1)

\* C20: for a non-empty reference set, a bandwidth > 0 and 0 < tau < 1 the
\* grid of FastGaussTransformPreprocess_ has at least one box along every
\* axis, nboxes is the product of the boxes along the axes, the convergence
\* ratio 2 * boxside is below 1, and the truncation-order search ends (the
\* search is never still running at the order where the model stops
\* following it) with nterms >= 1.
C20_GridAndSearch ==
  pc \in {"search", "alloc"} =>
    /\ \A di \in 1..rset_.n_rows : VecGet(nsides, di - 1) >= 1
    /\ nboxes = NsidesProduct(rset_.n_rows)
    /\ srch.two_r < Scale
    /\ pc = "search" => srch.ip < MaxOrder
    /\ pc = "alloc" => nterms >= 1 /\ nterms = srch.ip

\* the search has ended after more than one pass on a grid of 2 by 3 boxes
C20_Witness ==
  /\ pc = "alloc"
  /\ nsides.mem = <<2, 3>>
  /\ nboxes = 6
  /\ srch.two_r > 0
  /\ nterms >= 2

\* box c is within kdis of box b on every axis
WithinKdis(b, c) ==
  LET n == VecOf(nsides.mem)
      cb == SingleDimIndexInMultiArray_(n, b, VecSized(n.size)).mem
      cc == SingleDimIndexInMultiArray_(n, c, VecSized(n.size)).mem
  IN \A d \in 1..n.size : Abs(cb[d] - cc[d]) <= cut.kdis

\* C21: the pass of the loop of FinalizeSum_ for reference box b changes only
\* the density accumulators of queries in the lists of boxes within kdis of b
\* on every axis, the local expansions of such boxes and the far-field column
\* of b; the accumulators and local expansions of the boxes farther away, the
\* far-field columns of the other boxes, the assignment lists, the centroids
\* and the point sets stay as they are.
C21_Frame ==
  [][pc = "boxes" /\ pc' # "fault"
     => /\ \A q \in 1..Len(densities_) :
             densities_'[q] # densities_[q] =>
               \E c \in 0..(nboxes - 1) :
                 /\ WithinKdis(ibox, c)
                 /\ \E k \in 1..Len(queries_assigned.mem[c + 1]) :
                      queries_assigned.mem[c + 1][k] = q - 1
        /\ \A c \in 0..(nboxes - 1) :
             ~WithinKdis(ibox, c) => locexp'[c + 1] = locexp[c + 1]
        /\ \A c \in 0..(nboxes - 1) :
             c # ibox => mcoeffs'[c + 1] = mcoeffs[c + 1]
        /\ queries_assigned' = queries_assigned
        /\ references_assigned' = references_assigned
        /\ center' = center
        /\ qset_' = qset_
        /\ rset_' = rset_]_vars

====
